---- MODULE Spec2Model ----
(***************************************************************************)
(* Model of xlnt's compound_document (Compound File Binary Format engine), *)
(* source/detail/cryptography/compound_document.cpp.                       *)
(*                                                                         *)
(* The document object is modelled by one variable per member; the member  *)
(* functions are operators over a record `d` of those members, so that a   *)
(* member function calling another is an operator applied to the result of *)
(* another.  Each operator returns the document after the call, and, where *)
(* the C++ function returns a value, a record [d |-> ..., ret |-> ...].    *)
(*                                                                         *)
(* Vectors are sequences; the C++ index i is the TLA+ index i + 1.         *)
(* Names are sequences of character codes.                                 *)
(***************************************************************************)
EXTENDS Integers, Sequences, FiniteSets, TLC

VARIABLES
    header,          \* header_ : compound_document_header
    msat,            \* msat_   : sector_chain
    sat,             \* sat_    : sector_chain
    ssat,            \* ssat_   : sector_chain
    entries,         \* entries_ : vector<compound_document_entry>
    parent,          \* parent_ : directory_id -> directory_id
    parent_storage,  \* parent_storage_ : directory_id -> directory_id
    disk_header,     \* bytes [0, 512) of the backing stream, as last written
    disk,            \* sector id -> image last written by write_sector
    disk_rec,        \* byte offset -> record last written by write_entry
    disk_stray,      \* a write went to an indeterminate offset
    mode,            \* "write" (constructed on an ostream) or "read"
    crashed,         \* the process was terminated by undefined behaviour
    stream_out,      \* stream_out_buffer_ : None or [data, position]
    stream_in,       \* stream_in_buffer_  : None or [data, position]
    written,         \* history: path -> bytes the caller wrote to that path
    open_path,       \* history: path the write stream was opened on
    open_entry,      \* history: directory id the write stream was opened on
    closed,          \* history: directory id -> length of the closed stream
    last,            \* history: the last operation and its outcome
    handed,          \* history: the sector ids allocate_sector returned
    nops             \* history: number of operations performed

vars == <<header, msat, sat, ssat, entries, parent, parent_storage,
          disk_header, disk, disk_rec, disk_stray, mode, crashed,
          stream_out, stream_in, written, open_path, open_entry, closed,
          last, handed, nops>>

-----------------------------------------------------------------------------
(* Bounds of the model *)

\* operations performed in one behaviour of SpecAlloc
MaxOps == 4
\* sector count of the long chain that AllocateSectors may request
BigCount == 124
\* short-sector count of the long chain that AllocateShortSectors may request
BigShort == 9
\* pages the SAT may grow to before allocation stops
MaxSatPages == 2
\* names that SpecTree inserts (all orders)
MaxNames == 8
\* directory entries the document operations of Spec may create
MaxStreams == 4
\* bytes the caller writes to one stream
MaxLen == 2
\* operations performed in one behaviour of Spec
MaxSteps == 6
\* length of the tables SpecChain walks
MaxTable == 3
\* free slots left in the last inline SAT page when SpecOverflow starts
MaxFill == 12

-----------------------------------------------------------------------------
(* Constants of the program *)

FreeSector == -1
EndOfChain == -2
SATSector == -3
MSATSector == -4
End == -1

sector_size_power == 9
short_sector_size_power == 6
mini_cutoff == 4096
InlineMsatSlots == 109
EntryBytes == 128
HeaderBytes == 512
SectorIdBytes == 4

\* the absence of a value (a null pointer, no result)
None == [none |-> TRUE]

RECURSIVE Pow2(_)
Pow2(n) == IF n = 0 THEN 1 ELSE 2 * Pow2(n - 1)
Min(a, b) == IF a < b THEN a ELSE b
Max(a, b) == IF a < b THEN b ELSE a

sector_size == Pow2(sector_size_power)
short_sector_size == Pow2(short_sector_size_power)
sector_data_start == HeaderBytes

sectors_per_sector == sector_size \div SectorIdBytes
entries_per_sector == sector_size \div EntryBytes
short_sectors_per_sector == sector_size \div short_sector_size

\* Bind(v, F) is F(v) with v evaluated once (a local variable of the C++ code)
Bind(v, F(_)) == CHOOSE out \in {F(b) : b \in {v}} : TRUE

\* Repeat(F, Done, s, n): the state after a loop with body F has run from
\* state s until Done holds, or n times
RECURSIVE Repeat(_, _, _, _)
Repeat(F(_), Done(_), s, n) ==
    IF n <= 0 THEN s
    ELSE Bind(s, LAMBDA v :
             IF Done(v) THEN v
             ELSE IF n = 1 THEN F(v)
             ELSE Repeat(F, Done, Repeat(F, Done, v, n \div 2), n - n \div 2))

\* vector element access with the C++ (zero-based) index
At(t, i) == t[i + 1]
Put(t, i, v) == [t EXCEPT ![i + 1] = v]
Fill(n, v) == [i \in 1..n |-> v]
Range(t) == {t[i] : i \in 1..Len(t)}

\* unordered_map<directory_id, directory_id>::operator[] : a missing key
\* reads as the value-initialised 0
MapGet(m, k) == IF k \in DOMAIN m THEN m[k] ELSE 0
MapPut(m, k, v) == (k :> v) @@ m

-----------------------------------------------------------------------------
(* Records of compound_document.hpp *)

DefaultHeader ==
    [num_msat_sectors |-> 0,
     directory_start |-> EndOfChain,
     ssat_start |-> EndOfChain,
     num_short_sectors |-> 0,
     extra_msat_start |-> EndOfChain,
     num_extra_msat_sectors |-> 0,
     msat |-> Fill(InlineMsatSlots, FreeSector)]

DefaultEntry ==
    [name |-> <<>>, type |-> "Empty", color |-> "Black",
     prev |-> End, next |-> End, child |-> End,
     start |-> EndOfChain, size |-> 0]

\* the document before the constructor body runs
Blank ==
    [header |-> DefaultHeader, msat |-> <<>>, sat |-> <<>>, ssat |-> <<>>,
     entries |-> <<>>, parent |-> <<>>, parent_storage |-> <<>>,
     disk_header |-> None, disk |-> <<>>, disk_rec |-> <<>>, handed |-> <<>>,
     ub |-> FALSE]

Doc ==
    [header |-> header, msat |-> msat, sat |-> sat, ssat |-> ssat,
     entries |-> entries, parent |-> parent, parent_storage |-> parent_storage,
     disk_header |-> disk_header, disk |-> disk, disk_rec |-> disk_rec,
     handed |-> handed, ub |-> FALSE]

-----------------------------------------------------------------------------
(* compare_keys *)

to_lower(c) == IF c >= 65 /\ c <= 90 THEN c + 32 ELSE c

fold(s) == [i \in 1..Len(s) |-> to_lower(s[i])]

RECURSIVE string_compare(_, _, _)
string_compare(a, b, i) ==
    IF i > Len(a) \/ i > Len(b)
    THEN (IF Len(a) < Len(b) THEN -1 ELSE IF Len(a) > Len(b) THEN 1 ELSE 0)
    ELSE IF a[i] < b[i] THEN -1
    ELSE IF a[i] > b[i] THEN 1
    ELSE string_compare(a, b, i + 1)

\* compare_keys without the to_lower pass
compare_keys_raw(left, right) == string_compare(left, right, 1)

compare_keys(left, right) ==
    Bind(fold(left), LAMBDA a :
    Bind(fold(right), LAMBDA b :
        string_compare(a, b, 1)))

-----------------------------------------------------------------------------
(* Sector I/O and chains *)

\* follow_chain's loop, with the way it ends: "eoc" at a negative entry,
\* "oob" at an index outside the table, "cycle" at a sector seen before
chain_step(w, table) ==
    IF w.current < 0 THEN [w EXCEPT !.end = "eoc"]
    ELSE IF w.current >= Len(table)
    THEN [w EXCEPT !.chain = Append(@, w.current), !.end = "oob"]
    ELSE IF w.current \in Range(w.chain) THEN [w EXCEPT !.end = "cycle"]
    ELSE [w EXCEPT !.chain = Append(@, w.current),
                   !.current = At(table, w.current)]

chain_walk(current, table, chain) ==
    Repeat(LAMBDA w : chain_step(w, table), LAMBDA w : w.end # "run",
           [current |-> current, chain |-> chain, end |-> "run"],
           Len(table) + 1)

follow_chain(start, table) == chain_walk(start, table, <<>>).chain

\* binary_reader<T>::bytes() - offset(), the length write_sector passes on
reader_remaining(data, unit, off) == Len(data) * unit - off

\* write_sector for a reader over `data` (elements of `unit` bytes) whose
\* offset is `off` elements
write_sector(d, data, unit, off, id) ==
    Bind(Min(sector_size, reader_remaining(data, unit, off)) \div unit, LAMBDA n :
        IF off + n <= Len(data)
        THEN [d EXCEPT !.disk = (id :> SubSeq(data, off + 1, off + n)) @@ @]
        ELSE [d EXCEPT !.ub = TRUE])

\* write_sector of std::vector<byte>(sector_size()): the image <<>> stands
\* for sector_size zero bytes
write_empty_sector(d, id) == [d EXCEPT !.disk = (id :> <<>>) @@ @]

write_header(d) == [d EXCEPT !.disk_header = d.header]

\* write_sat / write_ssat: one write_sector per sector of `chain`, all with
\* the reader over `table` at offset 0
write_pages_step(s, table, chain) ==
    [d |-> write_sector(s.d, table, SectorIdBytes, 0, chain[s.i]), i |-> s.i + 1]

write_pages(d, table, chain, i) ==
    Repeat(LAMBDA s : write_pages_step(s, table, chain), LAMBDA s : FALSE,
           [d |-> d, i |-> i], Len(chain) - i + 1).d

write_sat(d) == write_pages(d, d.sat, d.msat, 1)

write_ssat(d) ==
    Bind(follow_chain(d.header.ssat_start, d.sat), LAMBDA chain :
        write_pages(d, d.ssat, chain, 1))

write_entry(d, id) ==
    Bind(follow_chain(d.header.directory_start, d.sat), LAMBDA directory_chain :
        IF id \div entries_per_sector < Len(directory_chain)
        THEN Bind(sector_size * At(directory_chain, id \div entries_per_sector)
                  + (id % entries_per_sector) * EntryBytes, LAMBDA offset :
                 [d EXCEPT !.disk_rec = (offset :> At(d.entries, id)) @@ @])
        ELSE [d EXCEPT !.ub = TRUE])

-----------------------------------------------------------------------------
(* Allocation tables *)

\* find_free that takes the last FreeSector instead of the first
find_free_last(t) ==
    IF \E i \in 1..Len(t) : t[i] = FreeSector
    THEN (CHOOSE i \in 1..Len(t) :
            t[i] = FreeSector /\ \A j \in (i + 1)..Len(t) : t[j] # FreeSector) - 1
    ELSE Len(t)

\* std::find(t.begin(), t.end(), FreeSector) - t.begin()
find_free(t) ==
    IF \E i \in 1..Len(t) : t[i] = FreeSector
    THEN (CHOOSE i \in 1..Len(t) :
            t[i] = FreeSector /\ \A j \in 1..(i - 1) : t[j] # FreeSector) - 1
    ELSE Len(t)

\* grow_sat without line 417, sat_[new_sat_sector_id] = SATSector
grow_sat_unmarked(d) ==
    Bind(d.header.num_msat_sectors, LAMBDA next_msat_index :
    Bind(Len(d.sat), LAMBDA new_sat_sector_id :
    Bind(Append(d.msat, new_sat_sector_id), LAMBDA msat1 :
    Bind([d EXCEPT !.msat = msat1,
                   !.header.msat = IF Len(msat1) <= InlineMsatSlots
                                   THEN Put(@, Len(msat1) - 1, new_sat_sector_id)
                                   ELSE @,
                   !.ub = @ \/ Len(msat1) > InlineMsatSlots,
                   !.sat = @ \o Fill(sectors_per_sector, FreeSector)], LAMBDA d1 :
        write_sector(d1, d1.sat, SectorIdBytes,
                     next_msat_index * sectors_per_sector, new_sat_sector_id)))))

\* allocate_sector, lines 410-422: the SAT holds no free slot
grow_sat(d) ==
    Bind(d.header.num_msat_sectors, LAMBDA next_msat_index :
    Bind(Len(d.sat), LAMBDA new_sat_sector_id :
    Bind(Append(d.msat, new_sat_sector_id), LAMBDA msat1 :
    Bind([d EXCEPT !.msat = msat1,
                   !.header.msat = IF Len(msat1) <= InlineMsatSlots
                                   THEN Put(@, Len(msat1) - 1, new_sat_sector_id)
                                   ELSE @,
                   !.ub = @ \/ Len(msat1) > InlineMsatSlots,
                   !.sat = Put(@ \o Fill(sectors_per_sector, FreeSector),
                               new_sat_sector_id, SATSector)], LAMBDA d1 :
        write_sector(d1, d1.sat, SectorIdBytes,
                     next_msat_index * sectors_per_sector, new_sat_sector_id)))))

\* allocate_sector without line 425, sat_[next_free] = EndOfChain
allocate_sector_unmarked(d) ==
    Bind(IF find_free(d.sat) = Len(d.sat) THEN grow_sat(d) ELSE d, LAMBDA d1 :
    Bind(find_free(d1.sat), LAMBDA next_free :
    Bind([d1 EXCEPT !.handed = Append(@, next_free)], LAMBDA d2 :
    Bind(write_sat(d2), LAMBDA d3 :
        [d |-> write_empty_sector(d3, next_free), ret |-> next_free]))))

allocate_sector(d) ==
    Bind(IF find_free(d.sat) = Len(d.sat) THEN grow_sat(d) ELSE d, LAMBDA d1 :
    Bind(find_free(d1.sat), LAMBDA next_free :
    Bind([d1 EXCEPT !.sat = Put(@, next_free, EndOfChain),
                    !.handed = Append(@, next_free)], LAMBDA d2 :
    Bind(write_sat(d2), LAMBDA d3 :
        [d |-> write_empty_sector(d3, next_free), ret |-> next_free]))))

\* allocate_sectors, lines 443-449: the body of the for loop
allocate_sectors_step(s) ==
    Bind(allocate_sector(s.d), LAMBDA a :
        [d |-> [a.d EXCEPT !.sat = Put(@, s.current, a.ret)],
         chain |-> Append(s.chain, s.current),
         current |-> a.ret])

allocate_sectors(d, count) ==
    IF count = 0 THEN [d |-> d, ret |-> <<>>]
    ELSE Bind(allocate_sector(d), LAMBDA a :
         Bind(Repeat(allocate_sectors_step, LAMBDA s : FALSE,
                     [d |-> a.d, chain |-> <<>>, current |-> a.ret],
                     count - 1), LAMBDA s :
             [d |-> s.d, ret |-> s.chain]))

\* allocate_short_sector, lines 495-518: the SSAT holds no free slot
grow_ssat(d) ==
    Bind(allocate_sector(d), LAMBDA a :
    Bind(a.ret, LAMBDA new_ssat_sector_id :
    Bind([a.d EXCEPT !.header.num_short_sectors = @ + 1], LAMBDA d1 :
    Bind(IF d1.header.ssat_start < 0
         THEN [d1 EXCEPT !.header.ssat_start = new_ssat_sector_id]
         ELSE Bind(follow_chain(d1.header.ssat_start, d1.sat), LAMBDA ssat_chain :
                  [d1 EXCEPT !.sat = Put(@, ssat_chain[Len(ssat_chain)],
                                         new_ssat_sector_id)]), LAMBDA d2 :
    Bind(write_header(d2), LAMBDA d3 :
    Bind(Len(d3.ssat), LAMBDA old_size :
    Bind([d3 EXCEPT !.ssat = @ \o Fill(sectors_per_sector, FreeSector)], LAMBDA d4 :
        write_sector(d4, d4.ssat, SectorIdBytes,
                     old_size \div sectors_per_sector, new_ssat_sector_id))))))))

\* allocate_short_sector, lines 531-535: the container's first sector
container_start(d) ==
    IF At(d.entries, 0).start < 0
    THEN Bind(allocate_sector(d), LAMBDA a :
         Bind([a.d EXCEPT !.entries[1].start = a.ret], LAMBDA d1 :
             write_entry(d1, 0)))
    ELSE d

\* allocate_short_sector, lines 537-543: one more container sector.
\* lhs_first: the build evaluates sat_[container_chain.back()] before the
\* call of allocate_sector() on the right of the assignment (permitted before
\* C++17); when that call reallocates sat_ the reference dangles and the
\* store does not reach sat_.
container_extend(d, required_container_sectors, lhs_first) ==
    Bind(follow_chain(At(d.entries, 0).start, d.sat), LAMBDA container_chain :
        IF required_container_sectors > Len(container_chain)
        THEN Bind(allocate_sector(d), LAMBDA a :
             Bind(IF lhs_first /\ Len(a.d.sat) # Len(d.sat)
                  THEN [a.d EXCEPT !.ub = TRUE]
                  ELSE [a.d EXCEPT !.sat =
                          Put(@, container_chain[Len(container_chain)], a.ret)],
                  LAMBDA d1 : write_sat(d1)))
        ELSE d)

\* allocate_short_sector, lines 526-544: the mini-stream container chain
ensure_container(d, next_free, lhs_first) ==
    Bind(next_free \div short_sectors_per_sector + 1, LAMBDA required_container_sectors :
        IF required_container_sectors > 0
        THEN Bind(container_start(d), LAMBDA d1 :
                 container_extend(d1, required_container_sectors, lhs_first))
        ELSE d)

allocate_short_sector(d, lhs_first) ==
    Bind(IF find_free(d.ssat) = Len(d.ssat) THEN grow_ssat(d) ELSE d, LAMBDA d1 :
    Bind(find_free(d1.ssat), LAMBDA next_free :
    Bind([d1 EXCEPT !.ssat = Put(@, next_free, EndOfChain)], LAMBDA d2 :
    Bind(write_ssat(d2), LAMBDA d3 :
        [d |-> ensure_container(d3, next_free, lhs_first), ret |-> next_free]))))

\* allocate_short_sectors, lines 475-481: the body of the for loop
allocate_short_sectors_step(s, lhs_first) ==
    Bind(allocate_short_sector(s.d, lhs_first), LAMBDA a :
        [d |-> [a.d EXCEPT !.ssat = Put(@, s.current, a.ret)],
         chain |-> Append(s.chain, s.current),
         current |-> a.ret])

allocate_short_sectors(d, count, lhs_first) ==
    IF count = 0 THEN [d |-> d, ret |-> <<>>]
    ELSE Bind(allocate_short_sector(d, lhs_first), LAMBDA a :
         Bind(Repeat(LAMBDA s : allocate_short_sectors_step(s, lhs_first),
                     LAMBDA s : FALSE,
                     [d |-> a.d, chain |-> <<>>, current |-> a.ret],
                     count - 1), LAMBDA s :
             [d |-> s.d, ret |-> Append(s.chain, s.current)]))

-----------------------------------------------------------------------------
(* RB-tree index: accessors (lines 909-942) *)

tree_left(d, id) == At(d.entries, id).prev
tree_right(d, id) == At(d.entries, id).next
tree_parent(d, id) == MapGet(d.parent, id)
tree_child(d, id) == At(d.entries, id).child
tree_root(d, id) == tree_child(d, MapGet(d.parent_storage, id))
tree_key(d, id) == At(d.entries, id).name
tree_color(d, id) == At(d.entries, id).color

set_left(d, id, v) == [d EXCEPT !.entries[id + 1].prev = v]
set_right(d, id, v) == [d EXCEPT !.entries[id + 1].next = v]
set_parent(d, id, v) == [d EXCEPT !.parent = MapPut(@, id, v)]
set_child(d, id, v) == [d EXCEPT !.entries[id + 1].child = v]
set_root(d, id, v) == set_child(d, MapGet(d.parent_storage, id), v)
set_color(d, id, v) == [d EXCEPT !.entries[id + 1].color = v]

\* tree_rotate_left without lines 783-786, tree_parent(tree_left(y)) = x
tree_rotate_left_keep_parent(d, x) ==
    Bind(tree_right(d, x), LAMBDA y :
    Bind(set_right(d, x, tree_left(d, y)), LAMBDA d2 :
    Bind(set_parent(d2, y, tree_parent(d2, x)), LAMBDA d3 :
    Bind(IF tree_parent(d3, x) = End THEN set_root(d3, x, y)
         ELSE IF x = tree_left(d3, tree_parent(d3, x))
         THEN set_left(d3, tree_parent(d3, x), y)
         ELSE set_right(d3, tree_parent(d3, x), y), LAMBDA d4 :
    Bind(set_left(d4, y, x), LAMBDA d5 :
        set_parent(d5, x, y))))))

tree_rotate_left(d, x) ==
    Bind(tree_right(d, x), LAMBDA y :
    \* turn y's left subtree into x's right subtree
    Bind(set_right(d, x, tree_left(d, y)), LAMBDA d1 :
    Bind(IF tree_left(d1, y) # End
         THEN set_parent(d1, tree_left(d1, y), x) ELSE d1, LAMBDA d2 :
    \* link x's parent to y
    Bind(set_parent(d2, y, tree_parent(d2, x)), LAMBDA d3 :
    Bind(IF tree_parent(d3, x) = End THEN set_root(d3, x, y)
         ELSE IF x = tree_left(d3, tree_parent(d3, x))
         THEN set_left(d3, tree_parent(d3, x), y)
         ELSE set_right(d3, tree_parent(d3, x), y), LAMBDA d4 :
    \* put x on y's left
    Bind(set_left(d4, y, x), LAMBDA d5 :
        set_parent(d5, x, y)))))))

tree_rotate_right(d, y) ==
    Bind(tree_left(d, y), LAMBDA x :
    \* turn x's right subtree into y's left subtree
    Bind(set_left(d, y, tree_right(d, x)), LAMBDA d1 :
    Bind(IF tree_right(d1, x) # End
         THEN set_parent(d1, tree_right(d1, x), y) ELSE d1, LAMBDA d2 :
    \* link y's parent to x
    Bind(set_parent(d2, x, tree_parent(d2, y)), LAMBDA d3 :
    Bind(IF tree_parent(d3, y) = End THEN set_root(d3, y, x)
         ELSE IF y = tree_left(d3, tree_parent(d3, y))
         THEN set_left(d3, tree_parent(d3, y), x)
         ELSE set_right(d3, tree_parent(d3, y), x), LAMBDA d4 :
    \* put y on x's right
    Bind(set_right(d4, x, y), LAMBDA d5 :
        set_parent(d5, y, x)))))))

\* tree_insert_fixup, case 1 (lines 856-860 and 883-887): recolour, move up
fixup_case1(d, x, y) ==
    Bind(set_color(d, tree_parent(d, x), "Black"), LAMBDA d1 :
    Bind(set_color(d1, y, "Black"), LAMBDA d2 :
    Bind(set_color(d2, tree_parent(d2, tree_parent(d2, x)), "Red"), LAMBDA d3 :
        [d |-> d3, x |-> tree_parent(d3, tree_parent(d3, x))])))

\* fixup_recolour without the grandparent's change of colour
fixup_recolour_parent_only(d, x) == set_color(d, tree_parent(d, x), "Black")

\* tree_insert_fixup, case 3 (lines 871-874 and 898-901): recolour the parent
\* and the grandparent
fixup_recolour(d, x) ==
    Bind(set_color(d, tree_parent(d, x), "Black"), LAMBDA d1 :
        set_color(d1, tree_parent(d1, tree_parent(d1, x)), "Red"))

\* tree_insert_fixup, cases 2 and 3 when the parent is a left child
fixup_left(d, x) ==
    Bind(x = tree_right(d, tree_parent(d, x)), LAMBDA case2 :
    Bind(IF case2 THEN tree_parent(d, x) ELSE x, LAMBDA x1 :
    Bind(IF case2 THEN tree_rotate_left(d, x1) ELSE d, LAMBDA d1 :
    Bind(fixup_recolour(d1, x1), LAMBDA d2 :
    Bind(tree_parent(d2, tree_parent(d2, x1)), LAMBDA g :
        [d |-> tree_rotate_right(d2, g), x |-> x1])))))

\* tree_insert_fixup, cases 2 and 3 when the parent is a right child
fixup_right(d, x) ==
    Bind(x = tree_left(d, tree_parent(d, x)), LAMBDA case2 :
    Bind(IF case2 THEN tree_parent(d, x) ELSE x, LAMBDA x1 :
    Bind(IF case2 THEN tree_rotate_right(d, x1) ELSE d, LAMBDA d1 :
    Bind(fixup_recolour(d1, x1), LAMBDA d2 :
    Bind(tree_parent(d2, tree_parent(d2, x1)), LAMBDA g :
        [d |-> tree_rotate_left(d2, g), x |-> x1])))))

\* one iteration of the while loop of tree_insert_fixup
fixup_step(d, x) ==
    Bind(tree_parent(d, tree_parent(d, x)), LAMBDA g :
        IF tree_parent(d, x) = tree_left(d, g)
        THEN Bind(tree_right(d, g), LAMBDA y :
                 IF y >= 0 /\ tree_color(d, y) = "Red"
                 THEN fixup_case1(d, x, y) ELSE fixup_left(d, x))
        ELSE Bind(tree_left(d, g), LAMBDA y :
                 IF y >= 0 /\ tree_color(d, y) = "Red"
                 THEN fixup_case1(d, x, y) ELSE fixup_right(d, x)))

RECURSIVE fixup_loop(_, _)
fixup_loop(d, x) ==
    IF x # tree_root(d, x) /\ tree_color(d, tree_parent(d, x)) = "Red"
    THEN Bind(fixup_step(d, x), LAMBDA s : fixup_loop(s.d, s.x))
    ELSE [d |-> d, x |-> x]

\* tree_insert_fixup without its last statement
blacken_root_skip(d, x) == d

\* the last statement of tree_insert_fixup
blacken_root(d, x) == set_color(d, tree_root(d, x), "Black")

tree_insert_fixup(d, x) ==
    Bind(set_color(d, x, "Red"), LAMBDA d1 :
    Bind(fixup_loop(d1, x), LAMBDA s :
        blacken_root(s.d, s.x)))

\* the descent of tree_insert: the node the new one is hung under
RECURSIVE tree_descend(_, _, _, _)
tree_descend(d, new_id, x, y) ==
    IF x >= 0
    THEN Bind(IF compare_keys(tree_key(d, new_id), tree_key(d, x)) > 0
              THEN tree_right(d, x) ELSE tree_left(d, x), LAMBDA below :
             tree_descend(d, new_id, below, x))
    ELSE y

\* tree_insert, lines 748-759: hang the node under y and rebalance
tree_attach(d, new_id, y) ==
    Bind(set_parent(d, new_id, y), LAMBDA d1 :
    Bind(IF compare_keys(tree_key(d1, new_id), tree_key(d1, y)) > 0
         THEN set_right(d1, y, new_id)
         ELSE set_left(d1, y, new_id), LAMBDA d2 :
        tree_insert_fixup(d2, new_id)))

tree_insert(d, new_id, storage_id) ==
    Bind([d EXCEPT !.parent_storage = MapPut(@, new_id, storage_id)], LAMBDA d1 :
    Bind(set_left(d1, new_id, End), LAMBDA d2 :
    Bind(set_right(d2, new_id, End), LAMBDA d3 :
        IF tree_root(d3, new_id) = End
        THEN Bind(IF new_id # 0 THEN set_root(d3, new_id, new_id) ELSE d3, LAMBDA d4 :
             Bind(set_color(d4, new_id, "Black"), LAMBDA d5 :
                 set_parent(d5, new_id, End)))
        ELSE Bind(tree_descend(d3, new_id, tree_root(d3, new_id), End), LAMBDA y :
                 tree_attach(d3, new_id, y)))))

-----------------------------------------------------------------------------
(* Directory store *)

\* compound_document_entry::name(const std::string &): at most 31 code units
entry_name(name) == SubSeq(name, 1, Min(Len(name), 31))

Slash == 47

RECURSIVE path_parts(_, _, _)
path_parts(d, storage_id, result) ==
    IF storage_id > 0
    THEN Bind(MapGet(d.parent_storage, storage_id), LAMBDA up :
         Bind(Append(result, At(d.entries, up).name), LAMBDA longer :
             path_parts(d, up, longer)))
    ELSE result

RECURSIVE join_path(_)
join_path(path) ==
    IF path = <<>> THEN <<>>
    ELSE Head(path) \o <<Slash>> \o join_path(Tail(path))

tree_path(d, id) ==
    Bind(path_parts(d, MapGet(d.parent_storage, id), <<>>), LAMBDA result :
        <<Slash>> \o join_path(result) \o At(d.entries, id).name)

RootName == <<82, 111, 111, 116, 32, 69, 110, 116, 114, 121>>

\* the smallest id of a set of directory ids, End when it is empty: the id at
\* which a scan from 0 first succeeds
first_id(ids) ==
    IF ids = {} THEN End ELSE CHOOSE id \in ids : \A other \in ids : id <= other

\* find_entry without the comparison of types
find_entry_any_type(d, name, type) ==
    IF type = "RootStorage" /\ (name = <<Slash>> \/ name = <<Slash>> \o RootName)
    THEN 0
    ELSE first_id({id \in 0..(Len(d.entries) - 1) : tree_path(d, id) = name})

find_entry(d, name, type) ==
    IF type = "RootStorage" /\ (name = <<Slash>> \/ name = <<Slash>> \o RootName)
    THEN 0
    ELSE first_id({id \in 0..(Len(d.entries) - 1) :
                     At(d.entries, id).type = type /\ tree_path(d, id) = name})

contains_entry(d, path, type) == find_entry(d, path, type) >= 0

RECURSIVE push_empty_entries(_, _, _)
push_empty_entries(d, entry_id, i) ==
    IF i >= entries_per_sector THEN d
    ELSE Bind([d EXCEPT !.entries = Append(@, DefaultEntry)], LAMBDA d1 :
         Bind(write_entry(d1, entry_id + i), LAMBDA d2 :
             push_empty_entries(d2, entry_id, i + 1)))

next_empty_entry(d) ==
    Bind(first_id({id \in 0..(Len(d.entries) - 1) :
                     At(d.entries, id).type = "Empty"}), LAMBDA found :
        IF found # End
        THEN [d |-> d, ret |-> found]
        ELSE Bind(Len(d.entries), LAMBDA entry_id :
             Bind(allocate_sector(d), LAMBDA a :
                 \* TODO: connect chains here (line 568)
                 [d |-> push_empty_entries(a.d, entry_id, 0), ret |-> entry_id])))

insert_entry(d, name, type) ==
    Bind(next_empty_entry(d), LAMBDA a :
    Bind([a.d EXCEPT !.entries[a.ret + 1].name = entry_name(name),
                     !.entries[a.ret + 1].type = type], LAMBDA d1 :
    Bind(write_entry(d1, a.ret), LAMBDA d2 :
        \* TODO: parse path from name and use correct parent storage (line 593)
        [d |-> tree_insert(d2, a.ret, 0), ret |-> a.ret])))

-----------------------------------------------------------------------------
(* Construct-for-read: read_header .. read_directory *)

\* the bytes of a directory record no write_entry has reached: a zero record
ZeroEntry ==
    [name |-> <<>>, type |-> "Empty", color |-> "Red",
     prev |-> 0, next |-> 0, child |-> 0, start |-> 0, size |-> 0]

\* read_sector into a binary_writer<sector_id>: sector_size bytes as words;
\* bytes that were never written, or cannot be read, stay zero
read_sector(d, id) ==
    IF id \in DOMAIN d.disk
    THEN d.disk[id] \o Fill(sectors_per_sector - Len(d.disk[id]), 0)
    ELSE Fill(sectors_per_sector, 0)

read_header(d) ==
    IF d.disk_header = None THEN d ELSE [d EXCEPT !.header = d.disk_header]

RECURSIVE read_msat_loop(_, _, _)
read_msat_loop(d, i, msat_sector) ==
    IF i >= d.header.num_msat_sectors THEN d
    ELSE IF i < InlineMsatSlots
    THEN Bind([d EXCEPT !.msat = Append(@, At(d.header.msat, i))], LAMBDA d1 :
             read_msat_loop(d1, i + 1, msat_sector))
    ELSE Bind(d.msat \o read_sector(d, msat_sector), LAMBDA got :
         Bind([d EXCEPT !.msat = SubSeq(got, 1, Len(got) - 1)], LAMBDA d1 :
             read_msat_loop(d1, i + 1, got[Len(got)])))

read_msat(d) ==
    Bind([d EXCEPT !.msat = <<>>], LAMBDA d1 :
        read_msat_loop(d1, 0, d1.header.extra_msat_start))

RECURSIVE read_sectors(_, _, _)
read_sectors(d, chain, i) ==
    IF i > Len(chain) THEN <<>>
    ELSE read_sector(d, chain[i]) \o read_sectors(d, chain, i + 1)

read_sat(d) == [d EXCEPT !.sat = read_sectors(d, d.msat, 1)]

read_ssat(d) ==
    Bind(chain_walk(d.header.ssat_start, d.sat, <<>>), LAMBDA walk :
        [d EXCEPT !.ssat = read_sectors(d, walk.chain, 1),
                  !.ub = @ \/ walk.end # "eoc"])

read_entry(d, id) ==
    Bind(follow_chain(d.header.directory_start, d.sat), LAMBDA directory_chain :
    Bind(At(directory_chain, id \div entries_per_sector), LAMBDA directory_sector :
    Bind(sector_size * directory_sector
         + (id % entries_per_sector) * EntryBytes, LAMBDA offset :
        IF sector_data_start + offset \in DOMAIN d.disk_rec
        THEN d.disk_rec[sector_data_start + offset]
        ELSE ZeroEntry)))

\* read_directory, lines 679-703: one storage's tree
RECURSIVE walk_storage(_, _, _, _)
walk_storage(d, storage_stack, directory_stack, current_storage_id) ==
    IF storage_stack = <<>>
    THEN [d |-> d, directory_stack |-> directory_stack]
    ELSE Bind(storage_stack[Len(storage_stack)], LAMBDA current_entry_id :
         Bind(SubSeq(storage_stack, 1, Len(storage_stack) - 1), LAMBDA popped :
         Bind([d EXCEPT !.parent_storage =
                 MapPut(@, current_entry_id, current_storage_id)], LAMBDA d1 :
         Bind(IF At(d.entries, current_entry_id).type = "UserStorage"
              THEN Append(directory_stack, current_entry_id)
              ELSE directory_stack, LAMBDA dirs :
         Bind(tree_left(d1, current_entry_id), LAMBDA l :
         Bind(IF l >= 0 THEN Append(popped, l) ELSE popped, LAMBDA s1 :
         Bind(IF l >= 0 THEN set_parent(d1, l, current_entry_id) ELSE d1, LAMBDA d2 :
         Bind(tree_right(d2, current_entry_id), LAMBDA r :
         Bind(IF r >= 0 THEN Append(s1, r) ELSE s1, LAMBDA s2 :
         Bind(IF r >= 0 THEN set_parent(d2, r, current_entry_id) ELSE d2, LAMBDA d3 :
             walk_storage(d3, s2, dirs, current_storage_id)))))))))))

\* read_directory, lines 667-704: every storage reachable from the root
RECURSIVE walk_directories(_, _)
walk_directories(d, directory_stack) ==
    IF directory_stack = <<>> THEN d
    ELSE Bind(directory_stack[Len(directory_stack)], LAMBDA current_storage_id :
         Bind(SubSeq(directory_stack, 1, Len(directory_stack) - 1), LAMBDA rest :
             IF tree_child(d, current_storage_id) < 0
             THEN walk_directories(d, rest)
             ELSE Bind(tree_child(d, current_storage_id), LAMBDA storage_root_id :
                  Bind(set_parent(d, storage_root_id, End), LAMBDA d1 :
                  Bind(walk_storage(d1, <<storage_root_id>>, rest,
                                    current_storage_id), LAMBDA w :
                      walk_directories(w.d, w.directory_stack))))))

read_directory(d) ==
    Bind(Len(follow_chain(d.header.directory_start, d.sat)) * entries_per_sector,
         LAMBDA count :
    Bind([d EXCEPT !.entries = [i \in 1..count |-> read_entry(d, i - 1)]], LAMBDA d1 :
        \* tree_child(0) reads entries_[0]: outside the vector when it is empty
        IF count = 0 THEN [d1 EXCEPT !.ub = TRUE]
        ELSE walk_directories(d1, <<0>>)))

\* compound_document(std::istream &)
construct_for_read(d) ==
    Bind([Blank EXCEPT !.disk_header = d.disk_header, !.disk = d.disk,
                       !.disk_rec = d.disk_rec], LAMBDA fresh :
    Bind(read_header(fresh), LAMBDA d1 :
    Bind(read_msat(d1), LAMBDA d2 :
    Bind(read_sat(d2), LAMBDA d3 :
    Bind(read_ssat(d3), LAMBDA d4 :
        read_directory(d4))))))

\* compound_document(std::ostream &)
construct_for_write ==
    Bind(write_header(Blank), LAMBDA d1 :
        insert_entry(d1, RootName, "RootStorage").d)

-----------------------------------------------------------------------------
(* Stream facade *)

\* compound_document_istreambuf / compound_document_ostreambuf constructors
new_streambuf(filename) == [data |-> filename, position |-> 0]

\* compound_document_ostreambuf::xsputn
xsputn(buf, s) ==
    Bind(Len(s), LAMBDA n :
    Bind(IF buf.data = <<>> THEN n
         ELSE Max(Len(buf.data), buf.position + n), LAMBDA size :
        [data |-> [i \in 1..size |->
                     IF i > buf.position /\ i <= buf.position + n
                     THEN s[i - buf.position]
                     ELSE IF i <= Len(buf.data) THEN buf.data[i] ELSE 0],
         position |-> buf.position + n]))

\* what a caller gets who reads the istream to its end (uflow until eof)
read_all(buf) == SubSeq(buf.data, buf.position + 1, Len(buf.data))

\* std::vector::at(size_type) with a directory_id argument
at_throws(t, id) == id < 0 \/ id >= Len(t)

\* open_read_stream: [ok, id, buf]
open_read_stream(d, name) ==
    Bind(find_entry(d, name, "UserStream"), LAMBDA entry_id :
        IF at_throws(d.entries, entry_id)
        THEN [ok |-> FALSE, id |-> entry_id, buf |-> None]
        ELSE [ok |-> TRUE, id |-> entry_id, buf |-> new_streambuf(name)])

\* open_write_stream inserting with the constructor's entry type
open_write_stream_root_type(d, name) ==
    Bind(IF contains_entry(d, name, "UserStream")
         THEN [d |-> d, ret |-> find_entry(d, name, "UserStream")]
         ELSE insert_entry(d, name, "RootStorage"), LAMBDA a :
        IF at_throws(a.d.entries, a.ret)
        THEN [d |-> a.d, ok |-> FALSE, id |-> a.ret, buf |-> None]
        ELSE [d |-> a.d, ok |-> TRUE, id |-> a.ret, buf |-> new_streambuf(name)])

\* open_write_stream: [d, ok, id, buf]
open_write_stream(d, name) ==
    Bind(IF contains_entry(d, name, "UserStream")
         THEN [d |-> d, ret |-> find_entry(d, name, "UserStream")]
         ELSE insert_entry(d, name, "UserStream"), LAMBDA a :
        IF at_throws(a.d.entries, a.ret)
        THEN [d |-> a.d, ok |-> FALSE, id |-> a.ret, buf |-> None]
        ELSE [d |-> a.d, ok |-> TRUE, id |-> a.ret, buf |-> new_streambuf(name)])

-----------------------------------------------------------------------------
(* Inputs *)

\* "a", "A", "/a", "/A": two spellings of one name, and the paths that
\* tree_path gives their entries
StreamNames == {<<97>>, <<65>>, <<Slash, 97>>, <<Slash, 65>>}

\* the paths open_read_stream is called with: those, and the root's path
ReadNames == StreamNames \cup {<<Slash>> \o RootName}

\* byte values the caller writes: '/' and 'a'
Bytes == {Slash, 97}

\* the i-th name SpecTree inserts: one letter, upper case for even i
TreeName(i) == <<(IF i % 2 = 0 THEN 64 ELSE 96) + i>>
TreeNames == {TreeName(i) : i \in 1..MaxNames}

\* the names SpecAlloc inserts: "a", "B" and the nested path "s/a"
InsertNames == {TreeName(1), TreeName(2), <<115, Slash, 97>>}

SectorCounts == {0, 2, BigCount}
ShortCounts == {0, 2, BigShort}

-----------------------------------------------------------------------------
(* State machine *)

docvars == <<header, msat, sat, ssat, entries, parent, parent_storage,
             disk_header, disk, disk_rec, handed>>
streamvars == <<stream_out, stream_in, written, open_path, open_entry, closed>>

Commit(d) ==
    /\ header' = d.header
    /\ msat' = d.msat
    /\ sat' = d.sat
    /\ ssat' = d.ssat
    /\ entries' = d.entries
    /\ parent' = d.parent
    /\ parent_storage' = d.parent_storage
    /\ disk_header' = d.disk_header
    /\ disk' = d.disk
    /\ disk_rec' = d.disk_rec
    /\ handed' = d.handed
    /\ disk_stray' = (disk_stray \/ d.ub)

\* A handler that executed undefined behaviour either runs on or terminates
\* the process: the members are gone (Blank), the backing stream stays, with
\* what the handler wrote before it stopped left undetermined.
Crash ==
    /\ crashed' = TRUE
    /\ header' = Blank.header
    /\ msat' = <<>>
    /\ sat' = <<>>
    /\ ssat' = <<>>
    /\ entries' = <<>>
    /\ parent' = <<>>
    /\ parent_storage' = <<>>
    /\ handed' = <<>>
    /\ disk_stray' = TRUE
    /\ stream_out' = None
    /\ stream_in' = None
    /\ last' = [op |-> "crash", arg |-> None, ok |-> FALSE, ret |-> None]
    /\ nops' = 0
    /\ UNCHANGED <<disk_header, disk, disk_rec, mode, written, open_path,
                   open_entry, closed>>

Init ==
    /\ \E made \in {construct_for_write} :
       \E c \in {FALSE} \cup (IF made.ub THEN {TRUE} ELSE {}) :
          /\ crashed = c
          /\ \E d \in {IF c THEN Blank ELSE made} :
                 /\ header = d.header
                 /\ msat = d.msat
                 /\ sat = d.sat
                 /\ ssat = d.ssat
                 /\ entries = d.entries
                 /\ parent = d.parent
                 /\ parent_storage = d.parent_storage
                 /\ disk_header = d.disk_header
                 /\ disk = d.disk
                 /\ disk_rec = d.disk_rec
                 /\ handed = d.handed
                 /\ disk_stray = made.ub
    /\ mode = "write"
    /\ stream_out = None
    /\ stream_in = None
    /\ written = <<>>
    /\ open_path = <<>>
    /\ open_entry = End
    /\ closed = <<>>
    /\ last = [op |-> "construct", arg |-> None, ok |-> TRUE, ret |-> None]
    /\ nops = 0

Live == ~crashed /\ mode \in {"write", "read"}

\* the length the caller wrote to the stream that is open for write
OpenLength == IF open_path \in DOMAIN written THEN Len(written[open_path]) ELSE 0

CloseOut == IF stream_out = None THEN closed ELSE MapPut(closed, open_entry, OpenLength)

UserStreams(es) == {id \in 0..(Len(es) - 1) : At(es, id).type = "UserStream"}

OpenWriteStream(name) ==
    /\ Live /\ mode = "write" /\ nops < MaxSteps
    /\ \E r \in {open_write_stream(Doc, name)} :
           /\ Cardinality(UserStreams(r.d.entries)) <= MaxStreams
           /\ \/ /\ Commit(r.d)
                 /\ stream_out' = r.buf
                 /\ written' = MapPut(written, name, <<>>)
                 /\ open_path' = name
                 /\ open_entry' = r.id
                 /\ closed' = CloseOut
                 /\ last' = [op |-> "open_write", arg |-> name, ok |-> r.ok,
                             ret |-> r.id]
                 /\ nops' = nops + 1
                 /\ UNCHANGED <<mode, crashed, stream_in>>
              \/ r.d.ub /\ Crash

StreamWrite(b) ==
    /\ Live /\ stream_out # None /\ nops < MaxSteps
    /\ OpenLength < MaxLen
    /\ stream_out' = xsputn(stream_out, <<b>>)
    /\ written' = [written EXCEPT ![open_path] = Append(@, b)]
    /\ last' = [op |-> "write", arg |-> <<b>>, ok |-> TRUE, ret |-> None]
    /\ nops' = nops + 1
    /\ UNCHANGED <<docvars, disk_stray, mode, crashed, stream_in, open_path,
                   open_entry, closed>>

OpenReadStream(name) ==
    /\ Live /\ nops < MaxSteps
    /\ \E r \in {open_read_stream(Doc, name)} :
           /\ stream_in' = IF r.ok THEN r.buf ELSE stream_in
           /\ last' = [op |-> "open_read", arg |-> name, ok |-> r.ok,
                       ret |-> IF r.ok THEN read_all(r.buf) ELSE None]
    /\ nops' = nops + 1
    /\ UNCHANGED <<docvars, disk_stray, mode, crashed, stream_out, written,
                   open_path, open_entry, closed>>

\* ~compound_document: the body is empty; the stream buffers are released
Destroy ==
    /\ Live /\ mode = "write" /\ nops < MaxSteps
    /\ mode' = "closed"
    /\ stream_out' = None
    /\ stream_in' = None
    /\ closed' = CloseOut
    /\ last' = [op |-> "destroy", arg |-> None, ok |-> TRUE, ret |-> None]
    /\ nops' = nops + 1
    /\ UNCHANGED <<docvars, disk_stray, crashed, written, open_path, open_entry>>

ConstructForRead ==
    /\ ~crashed /\ mode = "closed" /\ nops < MaxSteps
    /\ \E d \in {construct_for_read(Doc)} :
           \/ /\ Commit(d)
              /\ mode' = "read"
              /\ last' = [op |-> "construct_read", arg |-> None, ok |-> TRUE,
                          ret |-> None]
              /\ nops' = nops + 1
              /\ UNCHANGED <<crashed, streamvars>>
           \/ d.ub /\ Crash

Next ==
    \/ \E name \in StreamNames : OpenWriteStream(name)
    \/ \E b \in Bytes : StreamWrite(b)
    \/ \E name \in ReadNames : OpenReadStream(name)
    \/ Destroy
    \/ ConstructForRead

Spec == Init /\ [][Next]_vars

(* Allocation operations on a document constructed for write *)

Finished(r, op, arg) ==
    \/ /\ Commit(r.d)
       /\ last' = [op |-> op, arg |-> arg, ok |-> TRUE, ret |-> r.ret]
       /\ nops' = nops + 1
       /\ UNCHANGED <<mode, crashed, streamvars>>
    \/ r.d.ub /\ Crash

AllocDone(r, op, arg) ==
    /\ Len(r.d.sat) <= MaxSatPages * sectors_per_sector
    /\ Finished(r, op, arg)

AllocateSector ==
    /\ Live /\ nops < MaxOps
    /\ \E r \in {allocate_sector(Doc)} : AllocDone(r, "allocate_sector", 1)

AllocateSectors(count) ==
    /\ Live /\ nops < MaxOps
    /\ \E r \in {allocate_sectors(Doc, count)} :
          AllocDone(r, "allocate_sectors", count)

AllocateShortSector(lhs_first) ==
    /\ Live /\ nops < MaxOps
    /\ \E r \in {allocate_short_sector(Doc, lhs_first)} :
          AllocDone(r, "allocate_short_sector", 1)

AllocateShortSectors(count, lhs_first) ==
    /\ Live /\ nops < MaxOps
    /\ \E r \in {allocate_short_sectors(Doc, count, lhs_first)} :
          AllocDone(r, "allocate_short_sectors", count)

\* insert_entry, for its call of next_empty_entry: each fourth insert
\* allocates a directory sector
InsertEntry(name) ==
    /\ Live /\ nops < MaxOps
    /\ \E r \in {insert_entry(Doc, name, "UserStream")} :
          AllocDone(r, "insert_entry", name)

NextAlloc ==
    \/ AllocateSector
    \/ \E name \in InsertNames : InsertEntry(name)
    \/ \E count \in SectorCounts : AllocateSectors(count)
    \/ \E lhs_first \in BOOLEAN : AllocateShortSector(lhs_first)
    \/ \E count \in ShortCounts, lhs_first \in BOOLEAN :
          AllocateShortSectors(count, lhs_first)

SpecAlloc == Init /\ [][NextAlloc]_vars

(* Insertions into the root storage, names pairwise distinct after folding *)

Keys(es) == {fold(At(es, id).name) : id \in UserStreams(es)}

TreeInsert(name) ==
    /\ Live
    /\ fold(name) \notin Keys(entries)
    /\ \E r \in {insert_entry(Doc, name, "UserStream")} :
           \/ /\ Commit(r.d)
              /\ last' = [op |-> "insert_entry", arg |-> name, ok |-> TRUE,
                          ret |-> r.ret]
              /\ nops' = nops + 1
              /\ UNCHANGED <<mode, crashed, streamvars>>
           \/ r.d.ub /\ Crash

NextTree == \E name \in TreeNames : TreeInsert(name)

SpecTree == Init /\ [][NextTree]_vars

(* follow_chain on the tables a file can hold *)

\* the tables read_sat can produce from a file: every entry a sentinel or a
\* sector id, within the table or not
ChainTables ==
    UNION {[1..n -> {EndOfChain, FreeSector} \cup 0..MaxTable] : n \in 1..MaxTable}

ChainStarts == {EndOfChain, FreeSector} \cup 0..MaxTable

InitChain ==
    /\ header = Blank.header
    /\ msat = <<>>
    /\ sat \in ChainTables
    /\ ssat = <<>>
    /\ entries = <<>>
    /\ parent = <<>>
    /\ parent_storage = <<>>
    /\ disk_header = None
    /\ disk = <<>>
    /\ disk_rec = <<>>
    /\ disk_stray = FALSE
    /\ mode = "read"
    /\ crashed = FALSE
    /\ stream_out = None
    /\ stream_in = None
    /\ written = <<>>
    /\ open_path = <<>>
    /\ open_entry = End
    /\ closed = <<>>
    /\ last = [op |-> "table", arg |-> None, ok |-> TRUE, ret |-> None]
    /\ handed = <<>>
    /\ nops = 0

\* follow_chain(start, sat_): "eoc" is its return, "cycle" a loop that never
\* leaves the while, "oob" a read outside the table
FollowChain(start) ==
    /\ \E walk \in {chain_walk(start, sat, <<>>)} :
           last' = [op |-> "follow_chain", arg |-> start,
                    ok |-> walk.end = "eoc", ret |-> walk.chain,
                    end |-> walk.end]
    /\ nops' = 1
    /\ UNCHANGED <<docvars, disk_stray, mode, crashed, streamvars>>

NextChain == \E start \in ChainStarts : FollowChain(start)

SpecChain == InitChain /\ [][NextChain]_vars

(* allocate_sector at the inline capacity of the MSAT *)

\* the j-th sector, from 0, that is no SAT page: grow_sat makes the first
\* slot of every page the page's own sector
data_sector(j) == j + j \div (sectors_per_sector - 1) + 1

\* sat_ after the constructor and allocate_sectors(n): sector 1 is the
\* constructor's, data_sector(1..n) the chain; `linked` false is the table
\* before line 447 stores the last link
chained_sat(n, linked) ==
    [i \in 1..(sectors_per_sector * (data_sector(n) \div sectors_per_sector + 1)) |->
        IF (i - 1) % sectors_per_sector = 0 THEN SATSector
        ELSE IF i - 1 > data_sector(n) THEN FreeSector
        ELSE IF i - 1 = data_sector(n) \/ i - 1 = data_sector(0) THEN EndOfChain
        ELSE IF i % sectors_per_sector = 0
        THEN (IF ~linked /\ i + 1 = data_sector(n) THEN EndOfChain ELSE i + 1)
        ELSE (IF ~linked /\ i = data_sector(n) THEN EndOfChain ELSE i)]

\* the document after the constructor and allocate_sectors(n), n >= 1, and
\* what that call returned
chained(n) ==
    Bind(construct_for_write, LAMBDA made :
    Bind(data_sector(n) \div sectors_per_sector + 1, LAMBDA pages :
    Bind(SubSeq(chained_sat(n, FALSE), 1, sectors_per_sector), LAMBDA page :
        [d |-> [made EXCEPT
                   !.sat = chained_sat(n, TRUE),
                   !.msat = [p \in 1..pages |-> (p - 1) * sectors_per_sector],
                   !.header.msat = [i \in 1..InlineMsatSlots |->
                                       IF i <= pages
                                       THEN (i - 1) * sectors_per_sector
                                       ELSE FreeSector],
                   !.handed = [j \in 1..(n + 1) |-> data_sector(j - 1)],
                   !.disk = [id \in 0..data_sector(n) |->
                                IF id % sectors_per_sector = 0 THEN page
                                ELSE <<>>]],
         ret |-> [j \in 1..(n - 1) |-> data_sector(j)]])))

\* the chain length that leaves no free slot in InlineMsatSlots SAT pages
FullCount == InlineMsatSlots * (sectors_per_sector - 1) - 1

InitOverflow ==
    /\ \E fill \in 0..MaxFill :
       \E made \in {chained(FullCount - fill)} :
          /\ header = made.d.header
          /\ msat = made.d.msat
          /\ sat = made.d.sat
          /\ ssat = made.d.ssat
          /\ entries = made.d.entries
          /\ parent = made.d.parent
          /\ parent_storage = made.d.parent_storage
          /\ disk_header = made.d.disk_header
          /\ disk = made.d.disk
          /\ disk_rec = made.d.disk_rec
          /\ handed = made.d.handed
          /\ disk_stray = made.d.ub
          /\ last = [op |-> "allocate_sectors", arg |-> FullCount - fill,
                     ok |-> TRUE, ret |-> made.ret]
    /\ crashed = FALSE
    /\ mode = "write"
    /\ stream_out = None
    /\ stream_in = None
    /\ written = <<>>
    /\ open_path = <<>>
    /\ open_entry = End
    /\ closed = <<>>
    /\ nops = 0

AllocateAtCapacity ==
    /\ Live /\ nops < MaxFill + 2
    /\ \E r \in {allocate_sector(Doc)} : Finished(r, "allocate_sector", 1)

NextOverflow == AllocateAtCapacity

SpecOverflow == InitOverflow /\ [][NextOverflow]_vars

-----------------------------------------------------------------------------
(* Properties *)

Ids == 0..(Len(entries) - 1)
UserEntries == {id \in Ids : At(entries, id).type \in {"UserStream", "UserStorage"}}
CeilDiv(n, k) == (n + k - 1) \div k

\* C1: every stream written through open_write_stream and then reopened with
\* construct-for-read is read back by open_read_stream with exactly the bytes
\* that were written to its path.
C1_RoundTrip ==
    (mode = "read" /\ last.op = "open_read" /\ last.arg \in DOMAIN written)
        => (last.ok /\ last.ret = written[last.arg])

\* C2: no two entries of type UserStream or UserStorage share the pair
\* (parent_storage, case_fold(name)), whatever open_write_stream calls were made.
C2_Uniqueness ==
    (~crashed /\ mode = "write") =>
        \A i, j \in UserEntries :
            (/\ MapGet(parent_storage, i) = MapGet(parent_storage, j)
             /\ fold(At(entries, i).name) = fold(At(entries, j).name)) => i = j

\* C3: an insert whose name equals an existing sibling's name after ASCII case
\* folding fails, and leaves the directory as it was.
C3_CaseCollision ==
    [][(/\ last'.op = "open_write" /\ nops' = nops + 1
        /\ ~contains_entry(Doc, last'.arg, "UserStream")
        /\ fold(entry_name(last'.arg)) \in {fold(At(entries, id).name) : id \in UserEntries})
       => (~last'.ok /\ entries' = entries)]_vars

\* C4: open_read_stream(path) when no entry of type UserStream has that path
\* ends in an error, returns no stream, and leaves the entries and the
\* allocation tables unchanged.
C4_NotFound ==
    [][(/\ last'.op = "open_read" /\ nops' = nops + 1
        /\ ~\E id \in UserEntries : /\ At(entries, id).type = "UserStream"
                                    /\ tree_path(Doc, id) = last'.arg)
       => (/\ ~last'.ok /\ last'.ret = None
           /\ stream_in' = stream_in
           /\ UNCHANGED <<entries, msat, sat, ssat, parent, parent_storage>>)]_vars

\* a failed open_read_stream of the root's path (an entry of another type),
\* made while a user stream exists
C4_Witness ==
    /\ last.op = "open_read" /\ ~last.ok
    /\ last.arg = <<Slash>> \o RootName
    /\ \E id \in UserEntries : tree_path(Doc, id) \in ReadNames

\* C5: on a document constructed for write exactly one entry has type
\* RootStorage, it is directory id 0, every entry in use has parent storage 0,
\* and right after construction the root is the only entry in use.
C5_Root ==
    (~crashed /\ mode = "write") =>
        /\ {id \in Ids : At(entries, id).type = "RootStorage"} = {0}
        /\ \A id \in Ids : At(entries, id).type # "Empty" =>
               id \in DOMAIN parent_storage /\ parent_storage[id] = 0
        /\ last.op = "construct" =>
               {id \in Ids : At(entries, id).type # "Empty"} = {0}

\* three streams opened for write beside the root
C5_Witness ==
    /\ ~crashed /\ mode = "write" /\ last.op = "open_write"
    /\ Cardinality(UserEntries) = 3

\* C6: a stream of final length n that was written and closed has size n in
\* its entry, and its chain (through the SSAT below mini_cutoff, through the
\* SAT from there on) has ceil(n / sector size) sectors and ends at EndOfChain.
C6_ChainIntegrity ==
    (~crashed /\ mode \in {"write", "closed"}) =>
        \A id \in DOMAIN closed :
            \E n \in {closed[id]} :
            \E walk \in {chain_walk(At(entries, id).start,
                                    IF n < mini_cutoff THEN ssat ELSE sat, <<>>)} :
                /\ At(entries, id).size = n
                /\ walk.end = "eoc"
                /\ Len(walk.chain) = CeilDiv(n, IF n < mini_cutoff
                                                THEN short_sector_size
                                                ELSE sector_size)

\* C7: the root entry's size is the number of short sectors in use times
\* short_sector_size, and the root's chain through the SAT has
\* ceil(size / sector_size) sectors.
C7_MiniStreamSizing ==
    ~crashed =>
        /\ At(entries, 0).size =
               Cardinality({i \in 1..Len(ssat) : ssat[i] # FreeSector}) * short_sector_size
        /\ Len(follow_chain(At(entries, 0).start, sat)) =
               CeilDiv(At(entries, 0).size, sector_size)

\* C8: every SAT slot holds FreeSector, EndOfChain, SATSector, MSATSector or an
\* index below the SAT's length; the SAT's length is a multiple of
\* sector_size / 4; the slots marked SATSector are exactly the sectors the
\* MSAT lists.
C8_TableSentinels ==
    ~crashed =>
        /\ \A i \in 1..Len(sat) :
               \/ sat[i] \in {FreeSector, EndOfChain, SATSector, MSATSector}
               \/ sat[i] >= 0 /\ sat[i] < Len(sat)
        /\ Len(sat) % sectors_per_sector = 0
        /\ {i - 1 : i \in {j \in 1..Len(sat) : sat[j] = SATSector}} = Range(msat)

\* the SAT has grown to its second page under a long chain
C8_Witness ==
    /\ ~crashed /\ last.op = "allocate_sectors"
    /\ Len(sat) = 2 * sectors_per_sector /\ Len(msat) = 2
    /\ \E i \in 1..Len(sat) : sat[i] >= sectors_per_sector

TreeRoot == At(entries, 0).child
Color(id) == At(entries, id).color
Children(id) == {At(entries, id).prev, At(entries, id).next}

\* C9: after insertions of pairwise distinct case-folded names the tree's
\* root is Black and no Red node has a Red child.
C9_RedBlackColour ==
    (~crashed /\ TreeRoot # End) =>
        /\ Color(TreeRoot) = "Black"
        /\ \A id \in UserEntries : Color(id) = "Red" =>
               \A c \in Children(id) \ {End} : Color(c) = "Black"

\* a full tree that holds a Red node below a Black one below the root
C9_Witness ==
    /\ ~crashed /\ last.op = "insert_entry"
    /\ Cardinality(UserEntries) = MaxNames
    /\ \E id \in UserEntries, c \in UserEntries :
           /\ c \in Children(id) /\ Color(c) = "Red"
           /\ id # TreeRoot

\* the numbers of Black nodes on the paths from id down to an absent child;
\* -1 for a path longer than the directory
RECURSIVE BlackHeights(_, _)
BlackHeights(id, fuel) ==
    IF id = End THEN {0}
    ELSE IF fuel = 0 THEN {-1}
    ELSE {h + (IF Color(id) = "Black" THEN 1 ELSE 0) :
            h \in BlackHeights(At(entries, id).prev, fuel - 1)
                  \cup BlackHeights(At(entries, id).next, fuel - 1)}

\* C10: after insertions of pairwise distinct case-folded names every path
\* from the tree's root to an absent child passes through the same number of
\* Black nodes.
C10_BlackHeight ==
    ~crashed => Cardinality(BlackHeights(TreeRoot, Len(entries))) = 1

\* a tree of at least six nodes with two Black nodes on every path
C10_Witness ==
    /\ ~crashed /\ last.op = "insert_entry"
    /\ Cardinality(UserEntries) >= 6
    /\ BlackHeights(TreeRoot, Len(entries)) = {2}

\* the entries met by the walk left subtree, node, right subtree from id;
\* a walk longer than the directory is cut
RECURSIVE InOrder(_, _)
InOrder(id, fuel) ==
    IF id = End \/ fuel = 0 THEN <<>>
    ELSE InOrder(At(entries, id).prev, fuel - 1) \o <<id>>
         \o InOrder(At(entries, id).next, fuel - 1)

\* a comes before b in the order of case-folded names
FoldedBefore(a, b) ==
    \E k \in 1..(Len(a) + 1) :
        /\ \A i \in 1..(k - 1) : i <= Len(b) /\ to_lower(a[i]) = to_lower(b[i])
        /\ k <= Len(b)
        /\ (k <= Len(a) => to_lower(a[k]) < to_lower(b[k]))

\* C11: after insertions of pairwise distinct case-folded names the in-order
\* walk from the root storage's child visits every inserted entry exactly
\* once, in ascending order of the case-folded names.
C11_SearchTreeOrder ==
    ~crashed =>
        \E walk \in {InOrder(TreeRoot, Len(entries))} :
            /\ Len(walk) = Cardinality(UserEntries)
            /\ Range(walk) = UserEntries
            /\ \A i \in 1..(Len(walk) - 1) :
                   FoldedBefore(At(entries, walk[i]).name,
                                At(entries, walk[i + 1]).name)

\* a full tree whose walk starts at a lower-case name, passes an upper-case
\* one, and whose root has two subtrees
C11_Witness ==
    /\ ~crashed /\ last.op = "insert_entry"
    /\ Cardinality(UserEntries) = MaxNames
    /\ At(entries, TreeRoot).prev # End /\ At(entries, TreeRoot).next # End
    /\ \E walk \in {InOrder(TreeRoot, Len(entries))} :
           /\ At(entries, walk[1]).name = TreeName(1)
           /\ At(entries, walk[2]).name = TreeName(2)

\* the chains the document owns, as <<owner, first sector>>: the directory
\* chain (owner -1), the SSAT chain (owner -2), the chain each entry starts in
\* the SAT (owner: its id; the root's is the mini-stream container), and the
\* chain allocate_sectors returned last (owner -3)
OwnedChains ==
    {c \in {<<-1, header.directory_start>>, <<-2, header.ssat_start>>}
           \cup {<<id, At(entries, id).start>> :
                   id \in {e \in Ids : e = 0 \/ At(entries, e).size >= mini_cutoff}}
           \cup (IF last.op = "allocate_sectors"
                 THEN {<<-3, last.ret[i]>> : i \in 1..Min(1, Len(last.ret))}
                 ELSE {}) :
        c[2] >= 0}

Linked == {i \in 1..Len(sat) : sat[i] >= 0}

\* C12: no sector is the successor of two SAT slots, allocate_sector never
\* returns a sector twice, no sector belongs to two chains, and no SAT page
\* is a member of a chain.
C12_SectorOwnership ==
    ~crashed =>
        /\ Cardinality({sat[i] : i \in Linked}) = Cardinality(Linked)
        /\ Cardinality(Range(handed)) = Len(handed)
        /\ \A c1, c2 \in OwnedChains :
               c1 # c2 => Range(follow_chain(c1[2], sat))
                          \cap Range(follow_chain(c2[2], sat)) = {}
        /\ \A c \in OwnedChains : Range(follow_chain(c[2], sat)) \cap Range(msat) = {}
        /\ \A i \in Linked : sat[i] \notin Range(msat)

\* a long data chain beside the SSAT chain and a container chain of two
\* sectors, on a SAT of two pages
C12_Witness ==
    /\ ~crashed /\ last.op = "allocate_sectors" /\ Len(last.ret) > 100
    /\ header.ssat_start >= 0
    /\ Len(follow_chain(At(entries, 0).start, sat)) = 2
    /\ Len(msat) = 2

AllocOps == {"allocate_sector", "allocate_sectors", "allocate_short_sector",
             "allocate_short_sectors"}

\* the SAT and the SSAT as the backing stream holds them
PersistedSat == read_sectors(Doc, msat, 1)
PersistedSsat == read_sectors(Doc, follow_chain(header.ssat_start, sat), 1)

\* C13: when an allocate operation returns, the persisted header, SAT and
\* SSAT equal the ones in memory, the links the operation set included.
C13_PersistBeforeReturn ==
    (~crashed /\ last.op \in AllocOps) =>
        /\ disk_header = header
        /\ PersistedSat = sat
        /\ PersistedSsat = ssat

\* the record of entry id as the backing stream holds it at the place
\* read_entry reads; None when the directory chain does not reach the entry
PersistedEntry(id) ==
    IF id \div entries_per_sector
           < Len(follow_chain(header.directory_start, sat))
    THEN read_entry(Doc, id)
    ELSE None

\* C14: after destroy on a document constructed for write the persisted
\* record of every directory entry equals its value in memory, the fields
\* tree_insert set after the entry's own write included.
C14_FlushOnDestroy ==
    (~crashed /\ mode = "closed") =>
        \A id \in Ids : PersistedEntry(id) = At(entries, id)

\* the sector the walk from start is at after k steps; negative once the walk
\* has ended, Len(table) once it has left the table
RECURSIVE WalkAt(_, _, _)
WalkAt(start, table, k) ==
    IF k = 0 \/ start < 0 \/ start >= Len(table)
    THEN Min(start, Len(table))
    ELSE WalkAt(At(table, start), table, k - 1)

\* C15: follow_chain terminates for every start and table: a walk that
\* revisits a sector ends in a structural error, and a walk without a repeat
\* returns the sectors in order up to the first negative entry.
C15_FollowChainTerminates ==
    last.op = "follow_chain" =>
        /\ WalkAt(last.arg, sat, Len(sat)) \in 0..(Len(sat) - 1)
               => last.end = "error"
        /\ WalkAt(last.arg, sat, Len(sat)) < 0
               => /\ last.end = "eoc"
                  /\ \A i \in 1..Len(last.ret) :
                         last.ret[i] = WalkAt(last.arg, sat, i - 1)
                  /\ WalkAt(last.arg, sat, Len(last.ret)) < 0

DirectoryChain == follow_chain(header.directory_start, sat)

\* C16: every directory sector next_empty_entry allocates is linked into the
\* directory chain, so each directory id below the entry count has its sector
\* in follow_chain(header.directory_start, SAT), ending in END_OF_CHAIN.
C16_DirectoryLinkage ==
    ~crashed =>
        /\ \A id \in Ids : id \div entries_per_sector < Len(DirectoryChain)
        /\ Len(entries) > 0 =>
               /\ header.directory_start >= 0
               /\ At(sat, DirectoryChain[Len(DirectoryChain)]) = EndOfChain

\* C17: allocate_sectors(n) returns n pairwise distinct sector ids, each
\* linked in the SAT to the next and the last to END_OF_CHAIN, so that
\* follow_chain from the first returns the same sequence; for n = 0 it
\* returns the empty sequence.
C17_AllocateChain ==
    (~crashed /\ last.op = "allocate_sectors") =>
        /\ Len(last.ret) = last.arg
        /\ Cardinality(Range(last.ret)) = Len(last.ret)
        /\ \A i \in 1..(Len(last.ret) - 1) :
               At(sat, last.ret[i]) = last.ret[i + 1]
        /\ last.arg >= 1 =>
               /\ At(sat, last.ret[Len(last.ret)]) = EndOfChain
               /\ follow_chain(last.ret[1], sat) = last.ret

\* C18: after any sequence of allocations header.num_msat_sectors equals the
\* number of MSAT entries (one for each SAT page), and read_msat on the header
\* reconstructs the same MSAT.
C18_MsatCounter ==
    ~crashed =>
        /\ header.num_msat_sectors = Len(msat)
        /\ read_msat(Doc).msat = msat

\* the closed form `chained` agrees with the constructor followed by
\* allocate_sectors
ChainedAgrees ==
    (~crashed /\ last.op = "allocate_sectors" /\ nops = 1) =>
        /\ \A f \in (DOMAIN Doc) \ {"ub"} : Doc[f] = chained(last.arg).d[f]
        /\ last.ret = chained(last.arg).ret

\* C19: when allocate_sector grows the SAT while the MSAT holds the 109 inline
\* entries, it makes no store to an inline slot of index 109 or more (the
\* store is outside the array, and the process may stop at it), and the new
\* SAT page is recorded in an MSAT extension sector that
\* header.extra_msat_start links.
C19_MsatOverflow ==
    /\ ~crashed
    /\ Len(msat) > InlineMsatSlots =>
           /\ header.extra_msat_start >= 0
           /\ header.extra_msat_start \in DOMAIN disk
           /\ At(read_sector(Doc, header.extra_msat_start), 0)
                  = msat[InlineMsatSlots + 1]

\* the absolute byte offset of the record of directory id `id`
EntryOffset(id) ==
    HeaderBytes + sector_size * DirectoryChain[id \div entries_per_sector + 1]
    + (id % entries_per_sector) * EntryBytes

\* C20: for every directory id, write_entry(id) wrote the 128-byte record at
\* byte 512 + sector_size * dirchain[id / entries_per_sector]
\* + (id mod entries_per_sector) * 128, past the header, and that is the
\* record read_entry(id) reads.
C20_EntryAddressing ==
    ~crashed =>
        \A id \in Ids :
            /\ id \div entries_per_sector < Len(DirectoryChain)
            /\ EntryOffset(id) \in DOMAIN disk_rec
            /\ read_entry(Doc, id) = disk_rec[EntryOffset(id)]
            /\ \A off \in DOMAIN disk_rec : off >= HeaderBytes

\* C21: write_sat writes page j of the SAT to sector MSAT[j] for every page,
\* so read_sat after write_sat reconstructs the SAT in memory.
C21_SatPagePersistence ==
    ~crashed =>
        \E d \in {write_sat(Doc)} :
            /\ \A j \in 0..(Len(msat) - 1) :
                   read_sector(d, At(msat, j))
                       = SubSeq(sat, j * sectors_per_sector + 1,
                                (j + 1) * sectors_per_sector)
            /\ read_sat(d).sat = sat

\* C22: after open_write_stream(p) the directory contains a UserStream under
\* the path p, and find_entry(p, UserStream) returns the id of the entry the
\* call created or reused.
C22_LookupFindsCreated ==
    (~crashed /\ last.op = "open_write" /\ last.ok) =>
        /\ contains_entry(Doc, last.arg, "UserStream")
        /\ find_entry(Doc, last.arg, "UserStream") = last.ret

\* the components of a '/'-separated path, empty ones dropped
RECURSIVE PathComponents(_, _, _)
PathComponents(path, i, part) ==
    IF i > Len(path) THEN (IF part = <<>> THEN <<>> ELSE <<part>>)
    ELSE IF path[i] = Slash
    THEN (IF part = <<>> THEN <<>> ELSE <<part>>) \o PathComponents(path, i + 1, <<>>)
    ELSE PathComponents(path, i + 1, Append(part, path[i]))

\* the storage the first k components name: the root for k = 0, End when a
\* storage on the way is missing
RECURSIVE StorageAt(_, _)
StorageAt(parts, k) ==
    IF k = 0 THEN 0
    ELSE IF StorageAt(parts, k - 1) = End THEN End
    ELSE first_id({id \in UserEntries :
                     /\ At(entries, id).type = "UserStorage"
                     /\ At(entries, id).name = parts[k]
                     /\ MapGet(parent_storage, id) = StorageAt(parts, k - 1)})

\* C23: insert_entry with a '/'-separated path creates every intermediate
\* storage as a UserStorage entry and makes the storage the path's prefix
\* names the parent storage of the leaf.
C23_NestedInsertion ==
    (~crashed /\ last.op = "insert_entry") =>
        \E parts \in {PathComponents(last.arg, 1, <<>>)} :
            /\ StorageAt(parts, Len(parts) - 1) # End
            /\ MapGet(parent_storage, last.ret) = StorageAt(parts, Len(parts) - 1)

\* C24: when the SAT holds a FREE slot, allocate_sector returns the lowest
\* one, sets that slot to END_OF_CHAIN and leaves every other SAT slot, the
\* SAT length, the MSAT, the SSAT and the directory entries as they were;
\* when it holds none, the SAT grows by one page whose own slot becomes
\* SAT_SECTOR and the first FREE slot of the grown table is returned.
C24_FirstFreeFrame ==
    [][(last'.op = "allocate_sector" /\ nops' = nops + 1 /\ ~crashed') =>
          IF \E i \in 1..Len(sat) : sat[i] = FreeSector
          THEN /\ last'.ret \in 0..(Len(sat) - 1)
               /\ At(sat, last'.ret) = FreeSector
               /\ \A j \in 0..(last'.ret - 1) : At(sat, j) # FreeSector
               /\ sat' = Put(sat, last'.ret, EndOfChain)
               /\ msat' = msat
               /\ ssat' = ssat
               /\ entries' = entries
          ELSE /\ last'.ret = Len(sat) + 1
               /\ sat' = sat \o <<SATSector, EndOfChain>>
                             \o Fill(sectors_per_sector - 2, FreeSector)
               /\ msat' = Append(msat, Len(sat))
               /\ ssat' = ssat
               /\ entries' = entries]_vars

C24_Witness ==
    /\ ~crashed
    /\ last.op = "allocate_sector"
    /\ last.ret = sectors_per_sector + 1
    /\ At(sat, sectors_per_sector) = SATSector
    /\ At(sat, sectors_per_sector + 1) = EndOfChain
    /\ Len(sat) = 2 * sectors_per_sector

\* the short sectors handed out so far
ShortAllocated == {s \in 0..(Len(ssat) - 1) : At(ssat, s) # FreeSector}

\* C25: after any sequence of allocate_short_sector calls the root entry's
\* start is non-negative and its chain in the SAT has at least
\* floor(s / ratio) + 1 sectors for every short sector s handed out, and
\* the SSAT pages are the chain that starts at header.ssat_start.
C25_ContainerCoverage ==
    (~crashed /\ ShortAllocated # {}) =>
        /\ At(entries, 0).start >= 0
        /\ \A s \in ShortAllocated :
               Len(follow_chain(At(entries, 0).start, sat))
                   >= s \div short_sectors_per_sector + 1
        /\ header.ssat_start >= 0
        /\ Len(follow_chain(header.ssat_start, sat)) * sectors_per_sector
               = Len(ssat)

\* C26: after any sequence of tree_insert calls into the root storage, its
\* child is the one inserted node whose parent pointer is End, every other
\* inserted node is the left or right child of its parent, every child
\* pointer leads to a node whose parent pointer leads back, and every
\* inserted entry is reached once from the child by left and right links.
C26_TreeLinks ==
    (~crashed /\ UserEntries # {}) =>
        /\ {n \in UserEntries : MapGet(parent, n) = End} = {TreeRoot}
        /\ \A n \in UserEntries \ {TreeRoot} :
               /\ MapGet(parent, n) \in UserEntries
               /\ n \in Children(MapGet(parent, n))
        /\ \A n \in UserEntries : \A c \in Children(n) \ {End} :
               /\ c \in UserEntries
               /\ MapGet(parent, c) = n
        /\ \E walk \in {InOrder(TreeRoot, Len(entries))} :
               /\ Range(walk) = UserEntries
               /\ Len(walk) = Cardinality(UserEntries)

\* a full tree in which a node two links below the child has a child itself:
\* subtrees have moved in rotations
C26_Witness ==
    /\ ~crashed /\ last.op = "insert_entry"
    /\ Cardinality(UserEntries) = MaxNames
    /\ \E n \in UserEntries :
           /\ n # TreeRoot
           /\ MapGet(parent, n) # TreeRoot
           /\ MapGet(parent, MapGet(parent, n)) = TreeRoot
           /\ Children(n) # {End}
    /\ \E n \in UserEntries : n < TreeRoot

====
